---- MODULE Spec2Model ----
(***************************************************************************)
(* A model of the Lucidia symbolic kernel (src/symbolic_kernel.py): the    *)
(* hash-chained MemoryLedger, the Continuity fingerprint tracker, the      *)
(* genesis_identity metric with its InfinityMemory accumulator and the     *)
(* other derived metrics, together with the JSON-lines ContradictionLog    *)
(* (src/lucidia/contradiction_log.py).                                     *)
(*                                                                         *)
(* SHA-256 is modelled symbolically: the digest of a message m is the      *)
(* string "sha256(m)", so two digests are equal exactly when the hashed    *)
(* messages are equal (a collision-free hash).  Everything else (canonical *)
(* JSON, string concatenation, the "|" join, fixed-point formatting) is    *)
(* computed on strings as the code computes it.                            *)
(*                                                                         *)
(* A float is a rational <<n, d>> with d > 0, or one of inf, -inf and nan. *)
(* The finite range is scaled down to [-FloatMax, FloatMax]; a result      *)
(* beyond it overflows as IEEE-754 doubles do.                             *)
(***************************************************************************)
EXTENDS Integers, Sequences, FiniteSets, TLC

VARIABLES
    ledger,     \* MemoryLedger instance -> [h, count]  (self._h, self._count)
    file,       \* MemoryLedger instance -> the lines of the file at self.path
    fed,        \* history: the records passed to append() of the live instance
    heads,      \* history: self._h after each of those append() calls
    wfail,      \* history: the instances whose file has seen a failed write
    calls,      \* number of append() calls made so far (bounded by MaxAppends)
    lret,       \* outcome of the last ledger call
    cstate,     \* Continuity.state: [fingerprint, history]
    store,      \* the file at Continuity.path: [kind, doc]
    now,        \* the clock read by time.time()
    cret,       \* the last Continuity call and its outcome
    Minf,       \* InfinityMemory.total of the shared accumulator
    glog,       \* history: the calls made on the accumulator, with results
    shared,     \* one MemoryLedger used by several threads: [h, count, file]
    thr,        \* thread -> [pc, line, hnew, cnt, ret]: its place in append()
    logfile,    \* the file at ContradictionLog.path: [exists, lines]
    logstart,   \* history: that file as the ContradictionLog was constructed
    appended,   \* history: <<clock, prompt, reply>> of each append() that returned
    lout,       \* the last ContradictionLog call and what it returned
    mcall       \* the last operator or metric call: [fn, args, raised, out]

ledgerVars == <<ledger, file, fed, heads, wfail, calls, lret>>

contVars == <<cstate, store, now, cret>>

genVars == <<Minf, glog>>

concVars == <<shared, thr>>

logVars == <<logfile, logstart, appended, lout>>

metVars == <<mcall>>

vars == <<ledgerVars, contVars, genVars, concVars, logVars, metVars>>

-----------------------------------------------------------------------------
(* Values shared by the components *)

\* Python's None (no digest and no material string equals it).
NoneVal == "None"

\* hashlib.sha256(m.encode("utf-8")).hexdigest(), as a symbolic term.
Sha256(m) == "sha256(" \o m \o ")"

\* sep.join(ss)
RECURSIVE JoinWith(_, _)
JoinWith(ss, sep) ==
    IF ss = <<>> THEN ""
    ELSE IF Len(ss) = 1 THEN ss[1]
    ELSE ss[1] \o sep \o JoinWith(Tail(ss), sep)

Last(s) == s[Len(s)]

Min(a, b) == IF a <= b THEN a ELSE b

IsPrefix(s, t) == Len(s) <= Len(t) /\ SubSeq(t, 1, Len(s)) = s

Range(s) == { s[i] : i \in DOMAIN s }

-----------------------------------------------------------------------------
(* MemoryLedger *)

\* Number of append() calls explored, over all ledger instances.
MaxAppends == 4

\* "0" * 64
ZeroHash == "0000000000000000000000000000000000000000000000000000000000000000"

\* Two ledger instances, each on a path of its own.
Ledgers == {1, 2}

\* Keys in lexicographic order, as json.dumps(sort_keys=True) orders them.
KeyOrder == <<"a", "b">>

\* A record is a Python dict: its items in insertion order, keys distinct.
Records ==
    { <<<<"a", "x">>>>,
      <<<<"a", "x">>, <<"b", "x">>>>,
      <<<<"b", "x">>, <<"a", "x">>>> }

\* Python dict equality: the same items, whatever the insertion order.
SameDict(r1, r2) ==
    {r1[i] : i \in DOMAIN r1} = {r2[i] : i \in DOMAIN r2}

HasKey(rec, k) == \E i \in DOMAIN rec : rec[i][1] = k

ValueOf(rec, k) == rec[CHOOSE i \in DOMAIN rec : rec[i][1] = k][2]

\* The JSON text of a dict whose items are given in order, with json.dumps'
\* default separators: {"k": "v", "k": "v"}
JsonObject(items) ==
    "{" \o JoinWith([i \in DOMAIN items |->
                        "\"" \o items[i][1] \o "\": \"" \o items[i][2] \o "\""],
                    ", ") \o "}"

\* json.dumps(record) without sort_keys: the items in insertion order.
CanonicalUnsorted(rec) == JsonObject(rec)

\* json.dumps(record, sort_keys=True): the items ordered by key.
Canonical(rec) ==
    LET present == SelectSeq(KeyOrder, LAMBDA k : HasKey(rec, k))
    IN  JsonObject([i \in DOMAIN present |->
                       <<present[i], ValueOf(rec, present[i])>>])

\* sha256 of the line alone: the chain link to the previous head is lost.
hash_line_unchained(h, line) == Sha256(ZeroHash \o line)

\* MemoryLedger._hash_line: sha256(self._h + line)
hash_line(h, line) == Sha256(h \o line)

\* Recomputing the chain over the lines of a file, from the zero head.
RECURSIVE ChainFrom(_, _)
ChainFrom(h, lines) ==
    IF lines = <<>> THEN h
    ELSE ChainFrom(Sha256(h \o Head(lines)), Tail(lines))

ChainOver(lines) == ChainFrom(ZeroHash, lines)

\* MemoryLedger.__init__: the head is "0" * 64 and the count 0, whatever the
\* file at the path already holds.
NewLedger(lines) == [h |-> ZeroHash, count |-> 0]

LedgerInit ==
    /\ ledger = [i \in Ledgers |-> NewLedger(<<>>)]
    /\ file = [i \in Ledgers |-> <<>>]
    /\ fed = [i \in Ledgers |-> <<>>]
    /\ heads = [i \in Ledgers |-> <<>>]
    /\ wfail = {}
    /\ calls = 0
    /\ lret = [op |-> "init", who |-> 0, raised |-> FALSE, val |-> NoneVal]

\* A write that replaces the content of the file (mode "w").
write_line_truncating(lines, line) == <<line>>

\* with self.path.open("a") as f: f.write(line + "\n")
write_line(lines, line) == Append(lines, line)

\* MemoryLedger.append(record); ok = FALSE is open()/write() raising OSError.
LedgerAppend(i, rec, ok) ==
    LET line == Canonical(rec)
        h1 == hash_line(ledger[i].h, line)
    IN  /\ calls < MaxAppends
        /\ calls' = calls + 1
        /\ ledger' = [ledger EXCEPT ![i] = [h |-> h1, count |-> @.count + 1]]
        /\ fed' = [fed EXCEPT ![i] = Append(@, rec)]
        /\ heads' = [heads EXCEPT ![i] = Append(@, h1)]
        /\ IF ok
           THEN /\ file' = [file EXCEPT ![i] = write_line(@, line)]
                /\ wfail' = wfail
                /\ lret' = [op |-> "append", who |-> i, raised |-> FALSE,
                            val |-> h1]
           ELSE /\ file' = file
                /\ wfail' = wfail \cup {i}
                /\ lret' = [op |-> "append", who |-> i, raised |-> TRUE,
                            val |-> NoneVal]
        /\ UNCHANGED <<contVars, genVars, concVars, logVars, metVars>>

\* The MemoryLedger.fingerprint property.
LedgerFingerprint(i) ==
    /\ lret' = [op |-> "fingerprint", who |-> i, raised |-> FALSE,
                val |-> ledger[i].h]
    /\ UNCHANGED <<ledger, file, fed, heads, wfail, calls>>
    /\ UNCHANGED <<contVars, genVars, concVars, logVars, metVars>>

\* A new MemoryLedger(path) on the path of instance i (a later session): the
\* new instance replaces the old one; the file stays as it is.
LedgerReopen(i) ==
    /\ ledger' = [ledger EXCEPT ![i] = NewLedger(file[i])]
    /\ fed' = [fed EXCEPT ![i] = <<>>]
    /\ heads' = [heads EXCEPT ![i] = <<>>]
    /\ lret' = [op |-> "init", who |-> i, raised |-> FALSE, val |-> NoneVal]
    /\ UNCHANGED <<file, wfail, calls>>
    /\ UNCHANGED <<contVars, genVars, concVars, logVars, metVars>>

LedgerNext ==
    \/ \E i \in Ledgers, rec \in Records, ok \in BOOLEAN :
           LedgerAppend(i, rec, ok)
    \/ \E i \in Ledgers : LedgerFingerprint(i)
    \/ \E i \in Ledgers : LedgerReopen(i)

-----------------------------------------------------------------------------
(* Continuity *)

\* Number of history entries explored.
MaxHistory == 3

\* The clock stops advancing here.
MaxTime == 120

\* The amnesia window of amnesia_alert, in seconds.
Window == 60

\* The clock advances in steps of half a window.
TickStep == Window \div 2

\* Argument tuples of update_fingerprint(*materials).
Materials == { <<>>, <<"a">>, <<"b">>, <<"a", "b">>, <<"a|b">> }

\* "|".join(materials)
Join(ms) == JoinWith(ms, "|")

\* The state of a tracker whose store does not exist.
EmptyState == [fingerprint |-> NoneVal, history |-> <<>>]

\* The value of key k in a JSON object written as its sorted items.
Field(doc, k) == doc[CHOOSE i \in DOMAIN doc : doc[i][1] = k][2]

\* json.dump(self.state, f, indent=2, sort_keys=True): the document's items
\* with the keys of every object in sorted order.
JsonDump(st) ==
    << <<"fingerprint", st.fingerprint>>,
       <<"history",
         [i \in DOMAIN st.history |->
             << <<"new", st.history[i].new>>,
                <<"prev", st.history[i].prev>>,
                <<"ts", st.history[i].ts>> >>]>> >>

\* json.load(f): the dict of the document.
JsonLoad(doc) ==
    [fingerprint |-> Field(doc, "fingerprint"),
     history |->
         [i \in DOMAIN Field(doc, "history") |->
             [ts |-> Field(Field(doc, "history")[i], "ts"),
              prev |-> Field(Field(doc, "history")[i], "prev"),
              new |-> Field(Field(doc, "history")[i], "new")]]]

AbsentStore == [kind |-> "absent", doc |-> <<>>]

\* A store cut short by a write that failed after open(path, "w") truncated it.
CorruptStore == [kind |-> "corrupt", doc |-> <<>>]

JsonStore(st) == [kind |-> "json", doc |-> JsonDump(st)]

\* The outcome of a call that returns nothing of its own.
ContRet(op) ==
    [op |-> op, ms |-> <<>>, fp |-> NoneVal, prev |-> NoneVal,
     raised |-> FALSE, wrote |-> FALSE, alert |-> FALSE]

\* A comparison that always reports a change.
fp_changed_always(fp, prev) == TRUE

\* update_fingerprint: if fp != prev
fp_changed(fp, prev) == fp # prev

\* A change that keeps only the newest history entry.
with_change_truncating(st, fp, t) ==
    [fingerprint |-> fp,
     history |-> <<[ts |-> t, prev |-> st.fingerprint, new |-> fp]>>]

\* A change whose event does not record the fingerprint it replaces.
with_change_no_prev(st, fp, t) ==
    [fingerprint |-> fp,
     history |-> Append(st.history, [ts |-> t, prev |-> NoneVal, new |-> fp])]

\* update_fingerprint: the state after a change to fp at time t.
with_change(st, fp, t) ==
    [fingerprint |-> fp,
     history |-> Append(st.history,
                        [ts |-> t, prev |-> st.fingerprint, new |-> fp])]

\* A window that includes its end point.
amnesia_alert_inclusive(st, t) ==
    IF st.history = <<>> THEN FALSE
    ELSE (t - Last(st.history).ts) <= Window

\* Continuity.amnesia_alert at clock value t.
amnesia_alert(st, t) ==
    IF st.history = <<>> THEN FALSE
    ELSE (t - Last(st.history).ts) < Window

\* Continuity._load: the stored state, or the empty state if no store exists.
load(st) == IF st.kind = "json" THEN JsonLoad(st.doc) ELSE EmptyState

ContInit ==
    /\ store = AbsentStore
    /\ cstate = load(AbsentStore)
    /\ now = 0
    /\ cret = ContRet("init")

\* Continuity.update_fingerprint(*ms).  outcome: "ok"; "open_fails" when
\* open(path, "w") raises; "write_fails" when json.dump raises after the open
\* has truncated the file.
ContUpdate(ms, outcome) ==
    LET fp == Sha256(Join(ms))
        prev == cstate.fingerprint
        ret == [ContRet("update") EXCEPT !.ms = ms, !.fp = fp, !.prev = prev]
    IN  /\ IF fp_changed(fp, prev)
           THEN /\ Len(cstate.history) < MaxHistory
                /\ cstate' = with_change(cstate, fp, now)
                /\ CASE outcome = "ok" ->
                            /\ store' = JsonStore(cstate')
                            /\ cret' = [ret EXCEPT !.wrote = TRUE]
                     [] outcome = "open_fails" ->
                            /\ store' = store
                            /\ cret' = [ret EXCEPT !.raised = TRUE]
                     [] outcome = "write_fails" ->
                            /\ store' = CorruptStore
                            /\ cret' = [ret EXCEPT !.raised = TRUE,
                                                   !.wrote = TRUE]
           ELSE /\ outcome = "ok"
                /\ cstate' = cstate
                /\ store' = store
                /\ cret' = ret
        /\ UNCHANGED now
        /\ UNCHANGED <<ledgerVars, genVars, concVars, logVars, metVars>>

\* Continuity.amnesia_alert()
ContAmnesiaAlert ==
    /\ cret' = [ContRet("amnesia_alert") EXCEPT
                   !.alert = amnesia_alert(cstate, now)]
    /\ UNCHANGED <<cstate, store, now>>
    /\ UNCHANGED <<ledgerVars, genVars, concVars, logVars, metVars>>

\* A new Continuity(path) on the same store (a later session); json.load
\* raises on a corrupt store and no new tracker comes to be.
ContReload ==
    /\ IF store.kind = "corrupt"
       THEN /\ cstate' = cstate
            /\ cret' = [ContRet("load") EXCEPT !.raised = TRUE]
       ELSE /\ cstate' = load(store)
            /\ cret' = ContRet("load")
    /\ UNCHANGED <<store, now>>
    /\ UNCHANGED <<ledgerVars, genVars, concVars, logVars, metVars>>

\* Time passes.
Tick ==
    /\ now + TickStep <= MaxTime
    /\ now' = now + TickStep
    /\ cret' = ContRet("tick")
    /\ UNCHANGED <<cstate, store>>
    /\ UNCHANGED <<ledgerVars, genVars, concVars, logVars, metVars>>

ContNext ==
    \/ \E ms \in Materials, outcome \in {"ok", "open_fails", "write_fails"} :
           ContUpdate(ms, outcome)
    \/ ContAmnesiaAlert
    \/ ContReload
    \/ Tick

-----------------------------------------------------------------------------
(* Numbers: a finite float is modelled by the rational <<n, d>> it stands    *)
(* for, in lowest terms with d > 0; Optional[float] is <<>> (None) or <<v>>. *)
(* The R operators are exact arithmetic on rationals.  The F operators are   *)
(* the float operations built on them: a result whose magnitude exceeds      *)
(* FloatMax rounds to FloatMax or overflows to an infinity, inf and nan      *)
(* combine as IEEE 754 has it, and a division by zero raises.  Results       *)
(* within range are not rounded, and there is no signed zero.                *)

RECURSIVE GCD(_, _)
GCD(a, b) == IF b = 0 THEN a ELSE GCD(b, a % b)

Abs(n) == IF n < 0 THEN -n ELSE n

RNorm(n, d) ==
    LET g == GCD(Abs(n), Abs(d))
        sgn == IF d < 0 THEN -1 ELSE 1
    IN  IF n = 0 THEN <<0, 1>> ELSE <<sgn * (n \div g), sgn * (d \div g)>>

Zero == <<0, 1>>
One == <<1, 1>>
Half == <<1, 2>>

RAdd(a, b) == RNorm(a[1] * b[2] + b[1] * a[2], a[2] * b[2])
RNeg(a) == <<-a[1], a[2]>>
RSub(a, b) == RAdd(a, RNeg(b))
RMul(a, b) == RNorm(a[1] * b[1], a[2] * b[2])
RDiv(a, b) == IF a[1] = 0 THEN Zero ELSE RNorm(a[1] * b[2], a[2] * b[1])
RAbs(a) == <<Abs(a[1]), a[2]>>

\* a < b, by integer parts and then, Euclid's way, by the remainders.
RECURSIVE RLess(_, _)
RLess(a, b) ==
    LET qa == a[1] \div a[2]
        qb == b[1] \div b[2]
        ra == a[1] % a[2]
        rb == b[1] % b[2]
    IN  IF qa # qb THEN qa < qb
        ELSE IF rb = 0 THEN FALSE
        ELSE IF ra = 0 THEN TRUE
        ELSE RLess(<<b[2], rb>>, <<a[2], ra>>)

RMax(a, b) == IF RLess(a, b) THEN b ELSE a

\* 1e-9
EPS == <<1, 1000000000>>

\* The largest finite float.  The range of the double is scaled down to
\* [-FloatMax, FloatMax]: a result of larger magnitude overflows to inf.
FloatMax == 8

Huge == <<FloatMax, 1>>

\* float("inf"), float("-inf"), float("nan"): pairs with denominator 0.
Inf == <<1, 0>>
NegInf == <<-1, 0>>
NaN == <<0, 0>>

\* The value of an expression whose evaluation raised (ZeroDivisionError, or
\* OverflowError when an int is too large for a float): the exception passes
\* through every operation applied to it.
Raised == <<0, -1>>

IsFinite(a) == a[2] > 0

\* -a
FNeg(a) == <<-a[1], a[2]>>

\* The float nearest to the finite value q: q itself when in range; beyond
\* FloatMax, where the floats are 1 apart, FloatMax when q is less than half
\* a step away from it and an infinity otherwise.
Overflow(q) ==
    IF ~RLess(Huge, RAbs(q)) THEN q
    ELSE IF RLess(RAbs(q), RAdd(Huge, Half))
         THEN (IF q[1] > 0 THEN Huge ELSE FNeg(Huge))
         ELSE (IF q[1] > 0 THEN Inf ELSE NegInf)

\* abs(a)
FAbs(a) == <<Abs(a[1]), a[2]>>

\* The int n as a float, for an operation of a float and an int: the nearest
\* float, or OverflowError when that is an infinity.
int_to_float(n) ==
    IF Overflow(<<n, 1>>) \in {Inf, NegInf} THEN Raised ELSE Overflow(<<n, 1>>)

\* a + b
FAdd(a, b) ==
    IF a = Raised \/ b = Raised THEN Raised
    ELSE IF a = NaN \/ b = NaN THEN NaN
    ELSE IF ~IsFinite(a) THEN (IF ~IsFinite(b) /\ b # a THEN NaN ELSE a)
    ELSE IF ~IsFinite(b) THEN b
    ELSE Overflow(RAdd(a, b))

\* a - b
FSub(a, b) == FAdd(a, FNeg(b))

\* The infinity with the sign of the product (or quotient) of a and b.
SignedInf(a, b) == IF (a[1] > 0) = (b[1] > 0) THEN Inf ELSE NegInf

\* a * b
FMul(a, b) ==
    IF a = Raised \/ b = Raised THEN Raised
    ELSE IF a = NaN \/ b = NaN THEN NaN
    ELSE IF ~IsFinite(a) \/ ~IsFinite(b)
         THEN (IF a = Zero \/ b = Zero THEN NaN ELSE SignedInf(a, b))
    ELSE Overflow(RMul(a, b))

\* a / b: ZeroDivisionError when b is zero.
FDiv(a, b) ==
    IF a = Raised \/ b = Raised THEN Raised
    ELSE IF b = Zero THEN Raised
    ELSE IF a = NaN \/ b = NaN THEN NaN
    ELSE IF ~IsFinite(a) THEN (IF ~IsFinite(b) THEN NaN ELSE SignedInf(a, b))
    ELSE IF ~IsFinite(b) \/ a = Zero THEN Zero
    ELSE IF ~RLess(RAbs(a), RMul(RAdd(Huge, Half), RAbs(b)))
         THEN SignedInf(a, b)
    ELSE Overflow(RDiv(a, b))

\* a < b (False when either is nan).
FLess(a, b) ==
    IF a \in {NaN, Raised} \/ b \in {NaN, Raised} \/ a = b THEN FALSE
    ELSE IF a = NegInf \/ b = Inf THEN TRUE
    ELSE IF a = Inf \/ b = NegInf THEN FALSE
    ELSE RLess(a, b)

\* max(a, b): a unless b > a.
FMax(a, b) ==
    IF a = Raised \/ b = Raised THEN Raised
    ELSE IF FLess(a, b) THEN b ELSE a

\* sum(xs), from the left.
RECURSIVE FSumFrom(_, _)
FSumFrom(acc, xs) ==
    IF xs = <<>> THEN acc ELSE FSumFrom(FAdd(acc, Head(xs)), Tail(xs))

FSum(xs) == FSumFrom(Zero, xs)

RECURSIVE Pow10(_)
Pow10(p) == IF p = 0 THEN 1 ELSE 10 * Pow10(p - 1)

\* The first p decimals of r/d (0 <= r < d) as an integer, and what is left.
RECURSIVE Decimals(_, _, _)
Decimals(r, d, p) ==
    IF p = 0 THEN <<0, r>>
    ELSE LET rest == Decimals((r * 10) % d, d, p - 1)
         IN  <<((r * 10) \div d) * Pow10(p - 1) + rest[1], rest[2]>>

\* The decimal digits of f, left-padded with zeros to width p.
RECURSIVE ZeroPad(_, _)
ZeroPad(f, p) ==
    IF p = 0 THEN "" ELSE ZeroPad(f \div 10, p - 1) \o ToString(f % 10)

\* format(q, ".<p>f") for p >= 1: sign, integer part, p decimals, rounded
\* half to even.
FormatFixed(q, p) ==
    LET n == Abs(q[1])
        d == q[2]
        dec == Decimals(n % d, d, p)
        up == \/ 2 * dec[2] > d
              \/ 2 * dec[2] = d /\ dec[1] % 2 = 1
        scaled == dec[1] + (IF up THEN 1 ELSE 0)
        carry == IF scaled = Pow10(p) THEN 1 ELSE 0
    IN  (IF q[1] < 0 THEN "-" ELSE "")
            \o ToString((n \div d) + carry) \o "."
            \o ZeroPad(scaled - carry * Pow10(p), p)

\* format(a, ".<p>f") of any float.
Format(a, p) ==
    IF IsFinite(a) THEN FormatFixed(a, p)
    ELSE IF a = Inf THEN "inf"
    ELSE IF a = NegInf THEN "-inf"
    ELSE "nan"

-----------------------------------------------------------------------------
(* The contradiction operator, InfinityMemory and genesis_identity *)

\* Number of calls on the accumulator explored.
MaxCalls == 2

\* Longest breath timeline explored.
MaxBreath == 2

\* An operator whose render is the value itself, whatever the mirror.
held_rendering_value(x, xb) ==
    [x |-> x, x_bar |-> xb, compassion |-> One, render |-> x,
     detail |-> [tension |-> Zero, mag |-> FMax(EPS, FAdd(FAbs(x), FAbs(xb)))]]

\* The contradiction operator on a value and a mirror that is given.
held(x, xb) ==
    LET mag == FMax(EPS, FAdd(FAbs(x), FAbs(xb)))
        tension == FDiv(FAbs(FSub(x, xb)), mag)
        compassion == FMax(Zero, FSub(One, tension))
        render == FMul(FDiv(FAdd(x, xb), <<2, 1>>),
                       FAdd(Half, FMul(Half, compassion)))
    IN  [x |-> x, x_bar |-> xb, compassion |-> compassion, render |-> render,
         detail |-> [tension |-> tension, mag |-> mag]]

\* An operator that takes the value itself for its mirror.
psi_prime_self_mirrored(x, x_bar) == held(x, x)

\* psi_prime(x, x_bar): the HeldContradiction of a value and its mirror,
\* which is -x when x_bar is None.
psi_prime(x, x_bar) == held(x, IF x_bar = <<>> THEN FNeg(x) ELSE x_bar[1])

\* InfinityMemory.accumulate: the new total.
accumulate(total, value) == FAdd(total, value)

\* The loop of genesis_identity over the timeline: <<psi_sum, Minf.total>>.
RECURSIVE genesis_loop(_, _, _)
genesis_loop(timeline, psi_sum, total) ==
    IF timeline = <<>> THEN <<psi_sum, total>>
    ELSE LET b == Head(timeline)
             psi == FAdd(psi_sum, psi_prime(b, <<FNeg(b)>>).render)
         IN  genesis_loop(Tail(timeline), psi, accumulate(total, psi))

\* genesis_identity(breath, human_emotion_feedback, Minf): the digest and the
\* total it leaves in Minf.
genesis_identity(timeline, feedback, total) ==
    LET end == genesis_loop(timeline, Zero, total)
        material == Format(end[1], 9) \o "|" \o Format(feedback, 6)
                        \o "|" \o Format(end[2], 9)
    IN  [digest |-> Sha256(material), total |-> end[2]]

\* Zero, a small value and the negative float of largest magnitude.
BreathValues == { <<0, 1>>, <<1, 5>>, FNeg(Huge) }

Timelines ==
    UNION { [1..n -> BreathValues] : n \in 0..MaxBreath }

Feedbacks == { <<4, 5>> }

AccumulateValues == { <<1, 4>>, <<-1, 8>> }

GenInit ==
    /\ Minf = Zero
    /\ glog = <<>>

\* A call genesis_identity(Breath(timeline), feedback, Minf).
GenesisIdentity(timeline, feedback) ==
    LET res == genesis_identity(timeline, feedback, Minf)
    IN  /\ Len(glog) < MaxCalls
        /\ Minf' = res.total
        /\ glog' = Append(glog, [op |-> "genesis", breath |-> timeline,
                                 feedback |-> feedback, before |-> Minf,
                                 digest |-> res.digest])
        /\ UNCHANGED <<ledgerVars, contVars, concVars, logVars, metVars>>

\* A call Minf.accumulate(value) by another holder of the accumulator.
Accumulate(value) ==
    /\ Len(glog) < MaxCalls
    /\ Minf' = accumulate(Minf, value)
    /\ glog' = Append(glog, [op |-> "accumulate", breath |-> <<>>,
                             feedback |-> value, before |-> Minf,
                             digest |-> NoneVal])
    /\ UNCHANGED <<ledgerVars, contVars, concVars, logVars, metVars>>

GenNext ==
    \/ \E timeline \in Timelines, feedback \in Feedbacks :
           GenesisIdentity(timeline, feedback)
    \/ \E value \in AccumulateValues : Accumulate(value)

-----------------------------------------------------------------------------
(* The derived metrics: pure functions of their arguments.  A behaviour     *)
(* makes one call, kept in mcall with its arguments and its result; raised  *)
(* is TRUE when the call ended in an exception.                             *)

\* Longest list of fragments explored.
MaxFragments == 2

\* Finite floats: zero, small values of both signs, and the two floats of
\* largest magnitude.
Floats == { Zero, <<1, 5>>, <<-3, 20>>, Huge, FNeg(Huge) }

\* Breath timelines.
Series == UNION { [1..n -> Floats] : n \in 0..MaxBreath }

\* Memory resonance vectors and deltaE timelines.
Weights == UNION { [1..n -> { One, Huge }] : n \in 0..MaxBreath }

\* TruthFragment(id, value, mirror_value, emotion)
TruthFragment(id, value, mirror_value, emotion) ==
    [id |-> id, value |-> value, mirror_value |-> mirror_value,
     emotion |-> emotion]

Fragments ==
    { TruthFragment("x1", <<1, 5>>, <<>>, <<1, 5>>),
      TruthFragment("x2", Zero, <<Zero>>, Zero),
      TruthFragment("x3", Huge, <<Huge>>, <<1, 5>>),
      TruthFragment("x4", <<1, 5>>, << <<-3, 20>> >>, FNeg(Huge)) }

FragmentLists == UNION { [1..n -> Fragments] : n \in 0..MaxFragments }

\* elapsed_steps: negative, zero, small, and an int beyond the largest float.
Steps == { -1, 0, 1, 2, FloatMax + 1 }

\* delta_dissociation
DeltaDs == { Zero, <<-1, 5>>, <<1, 5>>, Huge }

\* memory_echo_series: fragment id -> series
EchoSeries ==
    { [id \in {} |-> <<>>],
      [id \in {"x1"} |-> << <<1, 5>> >>],
      [id \in {"x1", "x4"} |-> << <<1, 5>>, Zero >>],
      [id \in {"x3"} |-> << FNeg(Huge), Huge >>] }

\* Breath.grad: the first differences of the timeline.
grad(timeline) ==
    [i \in 1..(Len(timeline) - 1) |-> FSub(timeline[i + 1], timeline[i])]

\* Breath.integral: float(sum(self.timeline))
integral(timeline) == FSum(timeline)

\* The renders of the fragments, in order.
renders(frs) ==
    [i \in DOMAIN frs |-> psi_prime(frs[i].value, frs[i].mirror_value).render]

\* emotional_gravity(breath, mem_vector)
emotional_gravity(timeline, mem_vector) ==
    LET grad_b == grad(timeline)
        psi_vals == [i \in DOMAIN grad_b |->
                        FAbs(psi_prime(grad_b[i], <<FNeg(grad_b[i])>>).render)]
        mlen == Min(Len(psi_vals), Len(mem_vector))
    IN  FSum([i \in 1..mlen |-> FMul(psi_vals[i], mem_vector[i])])

\* truthstream(fragments, breath)
truthstream(frs, timeline) ==
    LET num == FSum(renders(frs))
        den == FMax(EPS, integral(timeline))
    IN  FDiv(num, den)

\* max(1, elapsed_steps)
floor_steps(elapsed_steps) == IF 1 < elapsed_steps THEN elapsed_steps ELSE 1

\* render_break(fragments, elapsed_steps)
render_break(frs, elapsed_steps) ==
    LET r == renders(frs)
        acc == FSum([i \in DOMAIN frs |-> FMul(r[i], frs[i].emotion)])
    IN  FDiv(acc, int_to_float(floor_steps(elapsed_steps)))

\* soul_loop_integrity(I0, breath, delta_dissociation)
soul_loop_integrity(I0, timeline, delta_dissociation) ==
    LET base == FAdd(I0, integral(timeline))
        hc == psi_prime(base, <<FNeg(base)>>)
    IN  FDiv(hc.render, FMax(EPS, delta_dissociation))

\* The sum of breath.timeline[i] * deltaE_timeline[i] over the shorter length.
resonance_integral(timeline, deltaE_timeline) ==
    LET m == Min(Len(timeline), Len(deltaE_timeline))
    IN  FSum([i \in 1..m |-> FMul(timeline[i], deltaE_timeline[i])])

\* consciousness_resonance(loop_observable, breath, deltaE_timeline)
consciousness_resonance(loop_observable, timeline, deltaE_timeline) ==
    LET hc == psi_prime(loop_observable, <<FNeg(loop_observable)>>)
    IN  FMul(hc.render, resonance_integral(timeline, deltaE_timeline))

\* anomaly_persistence(unresolved, memory_echo_series)
anomaly_persistence(unresolved, memory_echo_series) ==
    LET r == renders(unresolved)
        series(i) == IF unresolved[i].id \in DOMAIN memory_echo_series
                     THEN memory_echo_series[unresolved[i].id] ELSE <<>>
        dM(i) == IF Len(series(i)) >= 2
                 THEN FSub(series(i)[Len(series(i))],
                           series(i)[Len(series(i)) - 1])
                 ELSE Zero
    IN  FSum([i \in DOMAIN unresolved |-> FMul(r[i], dM(i))])

\* A decimal fraction of p digits without its trailing zeros: <<digits, width>>.
RECURSIVE StripZeros(_, _)
StripZeros(f, p) ==
    IF p > 1 /\ f % 10 = 0 THEN StripZeros(f \div 10, p - 1) ELSE <<f, p>>

\* json.dumps(round(a, p)): the shortest decimal text of a rounded to p
\* decimals (half to even), with at least one decimal.
json_rounded(a, p) ==
    IF a = Inf THEN "Infinity"
    ELSE IF a = NegInf THEN "-Infinity"
    ELSE IF a = NaN THEN "NaN"
    ELSE LET n == Abs(a[1])
             d == a[2]
             dec == Decimals(n % d, d, p)
             up == \/ 2 * dec[2] > d
                   \/ 2 * dec[2] = d /\ dec[1] % 2 = 1
             scaled == dec[1] + (IF up THEN 1 ELSE 0)
             carry == IF scaled = Pow10(p) THEN 1 ELSE 0
             frac == StripZeros(scaled - carry * Pow10(p), p)
         IN  (IF a[1] < 0 THEN "-" ELSE "")
                 \o ToString((n \div d) + carry) \o "."
                 \o ZeroPad(frac[1], frac[2])

\* compassion_state_encrypt(fragments, breath, sigma): raised, or the digest.
compassion_state_encrypt(frs, timeline, sigma) ==
    LET avg == IF frs # <<>>
               THEN FDiv(FSum(renders(frs)), int_to_float(Len(frs)))
               ELSE Zero
        payload == "{\"breath_sum\": " \o json_rounded(integral(timeline), 9)
                       \o ", \"render\": " \o json_rounded(avg, 9) \o "}"
    IN  IF avg = Raised THEN [raised |-> TRUE, digest |-> NoneVal]
        ELSE [raised |-> FALSE, digest |-> Sha256(payload \o "|" \o sigma)]

\* The record of a call that returned the float out (or raised).
Called(fn, args, out) ==
    [fn |-> fn, args |-> args, raised |-> (out = Raised), out |-> out]

MetInit == mcall = [fn |-> "none", args |-> <<>>, raised |-> FALSE, out |-> Zero]

PsiPrime(x, x_bar) ==
    /\ LET hc == psi_prime(x, x_bar)
       IN  mcall' = [fn |-> "psi_prime", args |-> <<x, x_bar>>,
                     raised |-> (hc.detail.tension = Raised), out |-> hc]
    /\ UNCHANGED <<ledgerVars, contVars, genVars, concVars, logVars>>

EmotionalGravity(timeline, mem_vector) ==
    /\ mcall' = Called("emotional_gravity", <<timeline, mem_vector>>,
                       emotional_gravity(timeline, mem_vector))
    /\ UNCHANGED <<ledgerVars, contVars, genVars, concVars, logVars>>

Truthstream(frs, timeline) ==
    /\ mcall' = Called("truthstream", <<frs, timeline>>,
                       truthstream(frs, timeline))
    /\ UNCHANGED <<ledgerVars, contVars, genVars, concVars, logVars>>

RenderBreak(frs, elapsed_steps) ==
    /\ mcall' = Called("render_break", <<frs, elapsed_steps>>,
                       render_break(frs, elapsed_steps))
    /\ UNCHANGED <<ledgerVars, contVars, genVars, concVars, logVars>>

SoulLoopIntegrity(I0, timeline, delta_dissociation) ==
    /\ mcall' = Called("soul_loop_integrity",
                       <<I0, timeline, delta_dissociation>>,
                       soul_loop_integrity(I0, timeline, delta_dissociation))
    /\ UNCHANGED <<ledgerVars, contVars, genVars, concVars, logVars>>

ConsciousnessResonance(loop_observable, timeline, deltaE_timeline) ==
    /\ mcall' = Called("consciousness_resonance",
                       <<loop_observable, timeline, deltaE_timeline>>,
                       consciousness_resonance(loop_observable, timeline,
                                               deltaE_timeline))
    /\ UNCHANGED <<ledgerVars, contVars, genVars, concVars, logVars>>

AnomalyPersistence(unresolved, memory_echo_series) ==
    /\ mcall' = Called("anomaly_persistence",
                       <<unresolved, memory_echo_series>>,
                       anomaly_persistence(unresolved, memory_echo_series))
    /\ UNCHANGED <<ledgerVars, contVars, genVars, concVars, logVars>>

CompassionStateEncrypt(frs, timeline, sigma) ==
    /\ LET res == compassion_state_encrypt(frs, timeline, sigma)
       IN  mcall' = [fn |-> "compassion_state_encrypt",
                     args |-> <<frs, timeline, sigma>>,
                     raised |-> res.raised, out |-> res.digest]
    /\ UNCHANGED <<ledgerVars, contVars, genVars, concVars, logVars>>

\* No call has been made yet.
NoCall == mcall.fn = "none"

MetNext ==
    \/ /\ NoCall
       /\ \E x \in Floats, x_bar \in {<<>>} \cup { <<v>> : v \in Floats } :
              PsiPrime(x, x_bar)
    \/ /\ NoCall
       /\ \E timeline \in Series, mem_vector \in Weights :
              EmotionalGravity(timeline, mem_vector)
    \/ /\ NoCall
       /\ \E frs \in FragmentLists, timeline \in Series :
              Truthstream(frs, timeline)
    \/ /\ NoCall
       /\ \E frs \in FragmentLists, elapsed_steps \in Steps :
              RenderBreak(frs, elapsed_steps)
    \/ /\ NoCall
       /\ \E I0 \in Floats, timeline \in Series, dD \in DeltaDs :
              SoulLoopIntegrity(I0, timeline, dD)
    \/ /\ NoCall
       /\ \E lo \in Floats, timeline \in Series, dE \in Weights :
              ConsciousnessResonance(lo, timeline, dE)
    \/ /\ NoCall
       /\ \E frs \in FragmentLists, echo \in EchoSeries :
              AnomalyPersistence(frs, echo)
    \/ /\ NoCall
       /\ \E frs \in FragmentLists, timeline \in Series :
              CompassionStateEncrypt(frs, timeline, "sigma")

-----------------------------------------------------------------------------
(* MemoryLedger.append called from several threads on one instance.  The     *)
(* code takes no lock, so the interpreter may switch threads between any two *)
(* of the reads and writes of self._h, self._count and the file.             *)

\* Number of threads, each calling append() once.
MaxThreads == 2

Threads == 1..MaxThreads

ConcInit ==
    /\ shared = [h |-> ZeroHash, count |-> 0, file |-> <<>>]
    /\ thr = [t \in Threads |->
                 [pc |-> "idle", line |-> "", hnew |-> NoneVal, cnt |-> 0,
                  ret |-> NoneVal]]

\* line = json.dumps(record, sort_keys=True)
ConcDumps(t, rec) ==
    /\ thr[t].pc = "idle"
    /\ thr' = [thr EXCEPT ![t].pc = "hash", ![t].line = Canonical(rec)]
    /\ UNCHANGED shared
    /\ UNCHANGED <<ledgerVars, contVars, genVars, logVars, metVars>>

\* self._hash_line(line): reads self._h
ConcHash(t) ==
    /\ thr[t].pc = "hash"
    /\ thr' = [thr EXCEPT ![t].pc = "store_h",
                          ![t].hnew = hash_line(shared.h, thr[t].line)]
    /\ UNCHANGED shared
    /\ UNCHANGED <<ledgerVars, contVars, genVars, logVars, metVars>>

\* self._h = <the hash computed>
ConcStoreHead(t) ==
    /\ thr[t].pc = "store_h"
    /\ shared' = [shared EXCEPT !.h = thr[t].hnew]
    /\ thr' = [thr EXCEPT ![t].pc = "load_count"]
    /\ UNCHANGED <<ledgerVars, contVars, genVars, logVars, metVars>>

\* self._count += 1: the read
ConcLoadCount(t) ==
    /\ thr[t].pc = "load_count"
    /\ thr' = [thr EXCEPT ![t].pc = "store_count", ![t].cnt = shared.count]
    /\ UNCHANGED shared
    /\ UNCHANGED <<ledgerVars, contVars, genVars, logVars, metVars>>

\* self._count += 1: the write
ConcStoreCount(t) ==
    /\ thr[t].pc = "store_count"
    /\ shared' = [shared EXCEPT !.count = thr[t].cnt + 1]
    /\ thr' = [thr EXCEPT ![t].pc = "write"]
    /\ UNCHANGED <<ledgerVars, contVars, genVars, logVars, metVars>>

\* with open(self.path, "a") as f: f.write(line + "\n")
ConcWrite(t) ==
    /\ thr[t].pc = "write"
    /\ shared' = [shared EXCEPT !.file = Append(@, thr[t].line)]
    /\ thr' = [thr EXCEPT ![t].pc = "return"]
    /\ UNCHANGED <<ledgerVars, contVars, genVars, logVars, metVars>>

\* return self._h
ConcReturn(t) ==
    /\ thr[t].pc = "return"
    /\ thr' = [thr EXCEPT ![t].pc = "done", ![t].ret = shared.h]
    /\ UNCHANGED shared
    /\ UNCHANGED <<ledgerVars, contVars, genVars, logVars, metVars>>

ConcNext ==
    \/ \E t \in Threads, rec \in Records : ConcDumps(t, rec)
    \/ \E t \in Threads : ConcHash(t)
    \/ \E t \in Threads : ConcStoreHead(t)
    \/ \E t \in Threads : ConcLoadCount(t)
    \/ \E t \in Threads : ConcStoreCount(t)
    \/ \E t \in Threads : ConcWrite(t)
    \/ \E t \in Threads : ConcReturn(t)

-----------------------------------------------------------------------------
(* ContradictionLog (src/lucidia/contradiction_log.py): a JSONL file of      *)
(* prompt/reply entries.  A line of the file is [kind, doc]: the JSON object *)
(* of an entry as its items in the order json.dumps wrote them, or a line    *)
(* that is not a JSON object (a write cut short by a crash).                 *)

\* Number of lines in the log file.
MaxEntries == 3

Prompts == { "a", "c" }

Replies == { "b" }

\* ContradictionEntry(timestamp, prompt, reply)
ContradictionEntry(t, p, r) == [timestamp |-> t, prompt |-> p, reply |-> r]

\* A serialization that exchanges the prompt and the reply.
entry_dumps_swapped(e) ==
    [kind |-> "json",
     doc |-> << <<"timestamp", e.timestamp>>,
                <<"prompt", e.reply>>,
                <<"reply", e.prompt>> >>]

\* json.dumps(asdict(entry)): the fields in their declared order.
entry_dumps(e) ==
    [kind |-> "json",
     doc |-> << <<"timestamp", e.timestamp>>,
                <<"prompt", e.prompt>>,
                <<"reply", e.reply>> >>]

\* ContradictionEntry(**json.loads(line.strip()))
entry_loads(line) ==
    ContradictionEntry(Field(line.doc, "timestamp"),
                       Field(line.doc, "prompt"),
                       Field(line.doc, "reply"))

\* A line that json.loads rejects.
TornLine == [kind |-> "torn", doc |-> <<>>]

AbsentLog == [exists |-> FALSE, lines |-> <<>>]

\* What the path may hold when a ContradictionLog is constructed on it:
\* nothing, an empty file, or a file left by a session that died mid-write.
LogFilesAtStart ==
    { AbsentLog,
      [exists |-> TRUE, lines |-> <<>>],
      [exists |-> TRUE, lines |-> <<TornLine>>] }

\* The outcome of a ContradictionLog call.
LogRet(op, raised, val) == [op |-> op, raised |-> raised, val |-> val]

\* A read that passes over the lines it cannot decode.
read_all_skipping(f) ==
    LET good == SelectSeq(f.lines, LAMBDA l : l.kind = "json")
    IN  [raised |-> FALSE, entries |-> [i \in DOMAIN good |-> entry_loads(good[i])]]

\* ContradictionLog.read_all: FileNotFoundError gives the empty list; a line
\* that json.loads rejects raises out of the call.
read_all(f) ==
    IF ~f.exists THEN [raised |-> FALSE, entries |-> <<>>]
    ELSE IF \E i \in DOMAIN f.lines : f.lines[i].kind # "json"
         THEN [raised |-> TRUE, entries |-> <<>>]
         ELSE [raised |-> FALSE,
               entries |-> [i \in DOMAIN f.lines |-> entry_loads(f.lines[i])]]

\* A latest() that returns the first entry.
latest_first(f) ==
    LET r == read_all(f)
    IN  [raised |-> r.raised,
         val |-> IF r.entries # <<>> THEN <<Head(r.entries)>> ELSE <<>>]

\* ContradictionLog.latest: entries[-1] if entries else None
latest(f) ==
    LET r == read_all(f)
    IN  [raised |-> r.raised,
         val |-> IF r.entries # <<>> THEN <<Last(r.entries)>> ELSE <<>>]

\* ContradictionLog.summary
summary(f) ==
    LET r == read_all(f)
    IN  [raised |-> r.raised,
         val |-> [count |-> Len(r.entries),
                  oldest_ts |-> IF r.entries # <<>>
                                THEN <<Head(r.entries).timestamp>> ELSE <<>>,
                  newest_ts |-> IF r.entries # <<>>
                                THEN <<Last(r.entries).timestamp>> ELSE <<>>]]

LogInit ==
    /\ logfile = AbsentLog
    /\ logstart = logfile
    /\ appended = <<>>
    /\ lout = LogRet("init", FALSE, <<>>)

\* ContradictionLog(path) on a path that may already hold a file.
LogInitAny ==
    /\ logfile \in LogFilesAtStart
    /\ logstart = logfile
    /\ appended = <<>>
    /\ lout = LogRet("init", FALSE, <<>>)

\* ContradictionLog.append(prompt, reply); ok = FALSE is open(path, "a")
\* raising OSError.
LogAppend(p, r, ok) ==
    LET entry == ContradictionEntry(now, p, r)
    IN  /\ Len(logfile.lines) < MaxEntries
        /\ IF ok
           THEN /\ logfile' = [exists |-> TRUE,
                               lines |-> write_line(logfile.lines,
                                                    entry_dumps(entry))]
                /\ appended' = Append(appended, <<now, p, r>>)
                /\ lout' = LogRet("append", FALSE, <<>>)
           ELSE /\ logfile' = logfile
                /\ appended' = appended
                /\ lout' = LogRet("append", TRUE, <<>>)
        /\ UNCHANGED logstart
        /\ UNCHANGED <<ledgerVars, contVars, genVars, concVars, metVars>>

\* ContradictionLog.read_all()
LogReadAll ==
    /\ lout' = LogRet("read_all", read_all(logfile).raised,
                      read_all(logfile).entries)
    /\ UNCHANGED <<logfile, logstart, appended>>
    /\ UNCHANGED <<ledgerVars, contVars, genVars, concVars, metVars>>

\* ContradictionLog.latest()
LogLatest ==
    /\ lout' = LogRet("latest", latest(logfile).raised, latest(logfile).val)
    /\ UNCHANGED <<logfile, logstart, appended>>
    /\ UNCHANGED <<ledgerVars, contVars, genVars, concVars, metVars>>

\* ContradictionLog.summary()
LogSummary ==
    /\ lout' = LogRet("summary", summary(logfile).raised, summary(logfile).val)
    /\ UNCHANGED <<logfile, logstart, appended>>
    /\ UNCHANGED <<ledgerVars, contVars, genVars, concVars, metVars>>

\* Time passes between two calls on the log.
LogTick ==
    /\ now + TickStep <= MaxTime
    /\ now' = now + TickStep
    /\ lout' = LogRet("tick", FALSE, <<>>)
    /\ UNCHANGED <<cstate, store, cret>>
    /\ UNCHANGED <<logfile, logstart, appended>>
    /\ UNCHANGED <<ledgerVars, genVars, concVars, metVars>>

LogNext ==
    \/ \E p \in Prompts, r \in Replies, ok \in BOOLEAN : LogAppend(p, r, ok)
    \/ LogReadAll
    \/ LogLatest
    \/ LogSummary
    \/ LogTick

-----------------------------------------------------------------------------
(* Specifications: one per component, the other components at rest *)

Init == LedgerInit /\ ContInit /\ GenInit /\ ConcInit /\ LogInit /\ MetInit

\* The same, with the log's path in any of the states it may be found in.
InitLog ==
    LedgerInit /\ ContInit /\ GenInit /\ ConcInit /\ LogInitAny /\ MetInit

Next == LedgerNext

Spec == Init /\ [][Next]_vars

SpecContinuity == Init /\ [][ContNext]_vars

SpecGenesis == Init /\ [][GenNext]_vars

SpecConcurrent == Init /\ [][ConcNext]_vars

SpecMetrics == Init /\ [][MetNext]_vars

SpecLog == InitLog /\ [][LogNext]_vars

\* No call has been made on the log, whose file is absent.
LogUnused == lout.op = "init" /\ ~logfile.exists

\* No call has been made on the tracker.
ContUnused == cret.op = "init"

\* The two stores that are read back from disk.  They share no state, so a
\* behaviour works on one of them and leaves the other as constructed.
StoresNext ==
    \/ /\ LogUnused
       /\ \E ms \in Materials, outcome \in {"ok", "open_fails", "write_fails"} :
              ContUpdate(ms, outcome)
    \/ LogUnused /\ ContAmnesiaAlert
    \/ LogUnused /\ ContReload
    \/ LogUnused /\ Tick
    \/ /\ ContUnused
       /\ \E p \in Prompts, r \in Replies, ok \in BOOLEAN : LogAppend(p, r, ok)
    \/ ContUnused /\ LogReadAll
    \/ ContUnused /\ LogLatest
    \/ ContUnused /\ LogSummary
    \/ ContUnused /\ LogTick

SpecStores == InitLog /\ [][StoresNext]_vars

-----------------------------------------------------------------------------
(* Properties of the ledger *)

\* C1: two ledger instances fed the same ordered sequence of records (equal as
\* dicts, from the zero head) have the same head hash after every append of
\* the sequence; so wherever their heads differ, the records fed differ.
LedgerDeterminism ==
    \A i, j \in Ledgers :
        \A k \in 1..Min(Len(fed[i]), Len(fed[j])) :
            (\A m \in 1..k : SameDict(fed[i][m], fed[j][m]))
                => heads[i][k] = heads[j][k]

\* C1 witness: both instances were fed the same two records, written with a
\* different key order, over files that differ, and their heads agree.
LedgerDeterminismWitness ==
    /\ Len(fed[1]) = 2 /\ Len(fed[2]) = 2
    /\ \A m \in 1..2 : SameDict(fed[1][m], fed[2][m])
    /\ fed[1] # fed[2]
    /\ file[1] # file[2]
    /\ ledger[1].h = ledger[2].h
    /\ ledger[1].h # ZeroHash

\* C2: a new ledger has the head of 64 "0" characters and count 0; a
\* successful append(record) sets the head to SHA256(head before +
\* canonical(record)), a new value, adds 1 to count and returns the new head;
\* fingerprint returns the head and changes nothing.
LedgerAppendContract ==
    /\ \A i \in Ledgers :
           /\ Len(ledger[i].h) = 64
           /\ ledger[i].h =
                  "0000000000000000000000000000000000000000000000000000000000000000"
           /\ ledger[i].count = 0
    /\ [][/\ lret'.op = "init" /\ lret'.who \in Ledgers
              => ledger'[lret'.who] = [h |-> ZeroHash, count |-> 0]
          /\ calls' # calls /\ ~lret'.raised
              => LET i == lret'.who
                     sorted == Canonical(Last(fed'[i]))
                 IN  /\ lret'.op = "append"
                     /\ ledger'[i].h = Sha256(ledger[i].h \o sorted)
                     /\ ledger'[i].h # ledger[i].h
                     /\ ledger'[i].count = ledger[i].count + 1
                     /\ lret'.val = ledger'[i].h
                     /\ \A j \in Ledgers \ {i} : ledger'[j] = ledger[j]
          /\ lret'.op = "fingerprint"
              => /\ lret'.val = ledger[lret'.who].h
                 /\ UNCHANGED <<ledger, file>>
         ]_vars

\* C2 witness: a second successful append on an instance has returned the new
\* head, which chains over the head the first append left.
LedgerAppendContractWitness ==
    /\ lret.op = "append" /\ ~lret.raised
    /\ ledger[lret.who].count = 2
    /\ lret.val = ledger[lret.who].h
    /\ heads[lret.who][1] # ZeroHash

\* C3: in every state the chain recomputed over the file's lines, from the
\* zero head, is the instance's head, and the file has count lines (stated here
\* for the files that never saw a failed write).
LedgerReVerifiable ==
    \A i \in Ledgers :
        i \notin wfail =>
            /\ ChainOver(file[i]) = ledger[i].h
            /\ Len(file[i]) = ledger[i].count

\* C9: an append whose write fails leaves head_hash and count as they were
\* before the call.
LedgerFailedAppendKeepsHead ==
    [][calls' # calls /\ lret'.raised
           => ledger'[lret'.who] = ledger[lret'.who]]_vars

-----------------------------------------------------------------------------
(* Properties of the continuity tracker *)

\* C5: an update_fingerprint call whose fingerprint equals the stored one
\* changes nothing: state (fingerprint, history) and store stay as they are and
\* the store is not opened for writing; and a call repeating the materials of
\* the call before it leaves the history length where that call left it.
ContUnchangedFingerprintNoEffect ==
    [][/\ cret'.op = "update" /\ cret'.fp = cstate.fingerprint
           => /\ cstate' = cstate
              /\ store' = store
              /\ ~cret'.wrote
       /\ cret.op = "update" /\ cret'.op = "update" /\ cret'.ms = cret.ms
           => Len(cstate'.history) = Len(cstate.history)
      ]_vars

\* C5 witness: a call repeated the stored fingerprint (it reports the same
\* previous and new fingerprint) on a tracker with history, the store in step.
ContUnchangedFingerprintWitness ==
    /\ cret.op = "update"
    /\ cret.fp = cret.prev
    /\ ~cret.wrote
    /\ Len(cstate.history) = 2
    /\ store = JsonStore(cstate)

\* C6: amnesia_alert returns true exactly when history is non-empty and
\* now - (timestamp of the last entry) < 60; so it is false on empty history,
\* true right after an update that changed the fingerprint, and false once 60
\* time units have passed since the last change.
ContAmnesiaWindow ==
    /\ cret.op = "amnesia_alert"
           => (cret.alert <=> /\ cstate.history # <<>>
                              /\ now - Last(cstate.history).ts < 60)
    /\ cstate.history = <<>> => ~amnesia_alert(cstate, now)
    /\ cret.op = "update" /\ cret.fp # cret.prev => amnesia_alert(cstate, now)
    /\ cstate.history # <<>> /\ now - Last(cstate.history).ts >= 60
           => ~amnesia_alert(cstate, now)

\* C6 witness: amnesia_alert has returned false on a tracker whose last
\* fingerprint change is exactly 60 time units old.
ContAmnesiaWindowWitness ==
    /\ cret.op = "amnesia_alert"
    /\ ~cret.alert
    /\ cstate.history # <<>>
    /\ now - Last(cstate.history).ts = 60

\* C7: over update_fingerprint and amnesia_alert calls the history before a
\* call is a prefix of the history after it; a call whose fingerprint differs
\* from the stored one appends exactly the entry {ts: now, prev: the stored
\* fingerprint, new: fp} and stores fp.
ContHistoryMonotone ==
    [][cret'.op \in {"update", "amnesia_alert"}
           => /\ IsPrefix(cstate.history, cstate'.history)
              /\ cret'.op = "update"
                     => /\ cret'.fp = Sha256(Join(cret'.ms))
                        /\ cret'.prev = cstate.fingerprint
              /\ cret'.op = "update" /\ cret'.fp # cstate.fingerprint
                     => /\ cstate'.history =
                               Append(cstate.history,
                                      [ts |-> now, prev |-> cstate.fingerprint,
                                       new |-> cret'.fp])
                        /\ cstate'.fingerprint = cret'.fp
      ]_vars

\* C7 witness: a third change was recorded, some time after the first, on top
\* of a present fingerprint.
ContHistoryMonotoneWitness ==
    /\ cret.op = "update"
    /\ cret.fp # cret.prev
    /\ cret.prev # NoneVal
    /\ Len(cstate.history) = 3
    /\ cstate.history[1].prev = NoneVal
    /\ cstate.history[3].ts > cstate.history[1].ts

\* C10: after every update_fingerprint call that returns, the store holds the
\* tracker's state, so a tracker constructed on it loads that state.
ContStoreMatchesState ==
    cret.op = "update" /\ ~cret.raised
        => /\ store.kind = "json"
           /\ load(store) = cstate

\* C19: the history of a tracker started on an absent store is a linked
\* chain in every reachable state: the first entry's prev is None, the prev
\* of every later entry is the new of the entry before it, no entry has new
\* equal to prev, and the stored fingerprint is the new of the last entry
\* (None exactly when the history is empty).
ContHistoryChain ==
    LET h == cstate.history
    IN  /\ h # <<>> => h[1].prev = NoneVal
        /\ \A i \in 2..Len(h) : h[i].prev = h[i - 1].new
        /\ \A i \in DOMAIN h : h[i].new # h[i].prev
        /\ cstate.fingerprint = IF h = <<>> THEN NoneVal ELSE Last(h).new
        /\ (cstate.fingerprint = NoneVal) <=> (h = <<>>)

\* Three changes, the third back to the first fingerprint, in a tracker that
\* a later session has loaded from the store.
ContHistoryChainWitness ==
    /\ Len(cstate.history) = 3
    /\ cstate.history[3].new = cstate.history[1].new
    /\ cret.op = "load" /\ ~cret.raised

-----------------------------------------------------------------------------
(* Properties of genesis_identity *)

\* C4: two genesis_identity calls with the same non-empty breath and the same
\* feedback on one shared accumulator return different digests.
GenesisSharedAccumulatorDiffers ==
    \A i, j \in DOMAIN glog :
        /\ i < j
        /\ glog[i].op = "genesis" /\ glog[j].op = "genesis"
        /\ glog[i].breath = glog[j].breath
        /\ glog[i].breath # <<>>
        /\ glog[i].feedback = glog[j].feedback
        => glog[i].digest # glog[j].digest

\* Minf.total after the i-th call of glog.
TotalAfter(i) == IF i < Len(glog) THEN glog[i + 1].before ELSE Minf

\* C18: genesis_identity leaves accumulator.total as it found it, for every
\* breath timeline of finite values and every prior total; so after any
\* number of genesis_identity calls and no other on a fresh accumulator the
\* total is 0.
GenesisLeavesTotal ==
    /\ \A i \in DOMAIN glog :
           glog[i].op = "genesis" => TotalAfter(i) = glog[i].before
    /\ (\A i \in DOMAIN glog : glog[i].op = "genesis") => Minf = Zero

\* A call on a two-step timeline that holds the float of largest magnitude,
\* made when the total was not 0.
GenesisLeavesTotalWitness ==
    /\ Len(glog) = 2
    /\ glog[1].op = "accumulate"
    /\ glog[2].op = "genesis"
    /\ glog[2].breath = <<FNeg(Huge), <<1, 5>> >>
    /\ glog[2].before # Zero
    /\ Minf = glog[2].before

-----------------------------------------------------------------------------
(* Properties of concurrent use *)

\* C8: appends called concurrently on one ledger act as critical sections, so
\* once N concurrent appends have returned, count is N, the file has N lines
\* and head_hash is the chain over those lines in file order.
ConcurrentAppendsSerialize ==
    (\A t \in Threads : thr[t].pc = "done")
        => /\ shared.count = MaxThreads
           /\ Len(shared.file) = MaxThreads
           /\ shared.h = ChainOver(shared.file)

\* C11: the ledger file is append-only.  Every step of every ledger operation
\* (construction, append, fingerprint) leaves the former content of each file
\* as a prefix of its new content; an append that returns adds exactly one
\* line at the end, the canonical serialization of its record; every other
\* step leaves the file as it was.
LedgerFileAppendOnly ==
    [][\A i \in Ledgers :
          /\ IsPrefix(file[i], file'[i])
          /\ IF lret'.op = "append" /\ lret'.who = i /\ ~lret'.raised
             THEN /\ Len(file'[i]) = Len(file[i]) + 1
                  /\ Last(file'[i]) = Canonical(Last(fed'[i]))
             ELSE file'[i] = file[i]]_vars

\* A file that already held a line when a later session opened it, and to
\* which that session has appended a second line.
LedgerFileAppendOnlyWitness ==
    \E i \in Ledgers :
        /\ Len(file[i]) = 2
        /\ Len(fed[i]) = 1
        /\ lret.op = "append" /\ lret.who = i /\ ~lret.raised
        /\ file[i][2] = Canonical(fed[i][1])

-----------------------------------------------------------------------------
(* Properties of the contradiction log *)

\* The entries a log holds after the append() calls recorded in calls.
EntriesOf(cs) == [i \in DOMAIN cs |-> ContradictionEntry(cs[i][1], cs[i][2], cs[i][3])]

\* C12: round trip of the contradiction log.  On a log whose file did not
\* exist when the log was constructed, read_all returns exactly one entry per
\* append() that returned, in the order of the calls, each with the prompt
\* and the reply passed to the call and the clock value read by it; and no
\* step changes or removes an entry that read_all returned before it.
LogRoundTrip ==
    /\ [](~logstart.exists =>
            /\ read_all(logfile) = [raised |-> FALSE,
                                    entries |-> EntriesOf(appended)]
            /\ (lout.op = "read_all" =>
                    lout = LogRet("read_all", FALSE, EntriesOf(appended))))
    /\ [][~logstart.exists =>
            IsPrefix(read_all(logfile).entries, read_all(logfile').entries)]_vars

\* read_all has returned three entries with different prompts, written at
\* three different clock values.
LogRoundTripWitness ==
    /\ ~logstart.exists
    /\ lout.op = "read_all" /\ ~lout.raised
    /\ Len(lout.val) = 3
    /\ lout.val[1].timestamp < lout.val[2].timestamp
    /\ lout.val[2].timestamp < lout.val[3].timestamp
    /\ lout.val[1].prompt # lout.val[2].prompt
    /\ lout.val[1].reply = "b"

\* C13: summary() and latest().  On a log that held no line when it was
\* constructed, summary() returns the number of appended entries as count,
\* the timestamp of the first appended entry as oldest_ts and that of the
\* last as newest_ts, and latest() returns the last appended entry; with no
\* entry (file empty or missing) count is 0 and oldest_ts, newest_ts and
\* latest() are None.
LogSummaryAndLatest ==
    logstart.lines = <<>> =>
        /\ (lout.op = "summary" =>
                /\ ~lout.raised
                /\ lout.val.count = Len(appended)
                /\ lout.val.oldest_ts =
                       IF appended = <<>> THEN <<>> ELSE <<Head(appended)[1]>>
                /\ lout.val.newest_ts =
                       IF appended = <<>> THEN <<>> ELSE <<Last(appended)[1]>>)
        /\ (lout.op = "latest" =>
                /\ ~lout.raised
                /\ lout.val = IF appended = <<>> THEN <<>>
                              ELSE <<Last(EntriesOf(appended))>>)

\* latest() has returned the third of three entries, whose timestamp and
\* prompt differ from those of the first.
LogSummaryAndLatestWitness ==
    /\ logstart.lines = <<>>
    /\ Len(appended) = 3
    /\ lout.op = "latest"
    /\ lout.val # <<>>
    /\ lout.val[1].timestamp > Head(appended)[1]
    /\ lout.val[1].prompt # Head(appended)[2]
    /\ summary(logfile).val.oldest_ts # summary(logfile).val.newest_ts

\* C14: reading a store that does not exist gives the empty state, and a
\* malformed store is an error of the read.  A Continuity constructed on an
\* absent store has fingerprint None and an empty history, and read_all on an
\* absent file returns the empty list, neither raising; a Continuity
\* constructed on a store that json.load rejects raises, and read_all on a
\* file with a line that json.loads rejects raises, whatever the other lines.
StoresAbsentOrMalformed ==
    /\ (cret.op \in {"init", "load"} /\ store.kind = "absent") =>
            ~cret.raised /\ cstate = EmptyState
    /\ (cret.op = "load" /\ store.kind = "corrupt") => cret.raised
    /\ (lout.op = "read_all" /\ ~logfile.exists) =>
            lout = LogRet("read_all", FALSE, <<>>)
    /\ (lout.op = "read_all" /\ TornLine \in Range(logfile.lines)) =>
            lout.raised

\* read_all has raised on a file that holds a torn line followed by a well
\* formed one.
StoresAbsentOrMalformedWitness ==
    /\ lout.op = "read_all" /\ lout.raised
    /\ Len(logfile.lines) = 2
    /\ logfile.lines[1] = TornLine
    /\ logfile.lines[2].kind = "json"

-----------------------------------------------------------------------------
(* Properties of the contradiction operator and the derived metrics *)

\* A float in [0, 1].
InUnit(a) == IsFinite(a) /\ ~RLess(a, Zero) /\ ~RLess(One, a)

\* C15: for every finite x and every mirror (None, or any finite value) the
\* result of psi_prime has tension in [0, 1] and compassion equal to
\* max(0, 1 - tension) and in [0, 1], x = mirror = 0 included.
PsiTensionCompassionInUnit ==
    mcall.fn = "psi_prime" =>
        /\ InUnit(mcall.out.detail.tension)
        /\ InUnit(mcall.out.compassion)
        /\ mcall.out.compassion =
               FMax(Zero, FSub(One, mcall.out.detail.tension))

\* C16: for every non-zero finite x, psi_prime(x, x) has tension 0,
\* compassion 1 and render x.
PsiSelfMirrorRendersValue ==
    (/\ mcall.fn = "psi_prime"
     /\ mcall.args[2] = <<mcall.args[1]>>
     /\ mcall.args[1] # Zero)
    => /\ mcall.out.detail.tension = Zero
       /\ mcall.out.compassion = One
       /\ mcall.out.render = mcall.args[1]

\* C17: no call of the operator or of a derived metric raises, whatever its
\* arguments: empty fragments, an empty timeline or one that sums to zero or
\* less, delta_dissociation <= 0 and elapsed_steps <= 0 included.
MetricsNeverRaise == ~mcall.raised

\* What does hold: no call divides by zero, and the only call that raises is
\* render_break with an elapsed_steps too large to be converted to a float.
MetricsRaiseOnlyOnHugeSteps ==
    mcall.raised =>
        /\ mcall.fn = "render_break"
        /\ int_to_float(mcall.args[2]) = Raised

\* The three metrics that multiply by the render of a value and its negation.
ZeroMetrics ==
    { "emotional_gravity", "soul_loop_integrity", "consciousness_resonance" }

\* C20, as stated: emotional_gravity, soul_loop_integrity and
\* consciousness_resonance return 0 for every input of finite values.
ZeroMetricsReturnZero ==
    mcall.fn \in ZeroMetrics => mcall.out = Zero

\* No intermediate value of the call kept in mcall has overflowed: the first
\* differences that emotional_gravity uses, I0 + sum(breath) in
\* soul_loop_integrity, the sum of products in consciousness_resonance.
NoOverflow ==
    CASE mcall.fn = "emotional_gravity" ->
             \A i \in 1..Min(Len(mcall.args[1]) - 1, Len(mcall.args[2])) :
                 IsFinite(grad(mcall.args[1])[i])
      [] mcall.fn = "soul_loop_integrity" ->
             IsFinite(FAdd(mcall.args[1], integral(mcall.args[2])))
      [] mcall.fn = "consciousness_resonance" ->
             IsFinite(resonance_integral(mcall.args[2], mcall.args[3]))
      [] OTHER -> TRUE

\* C20, amended: for every input of finite values the three metrics return 0
\* when no intermediate value overflows, and nan when one does; they return
\* nothing else.
ZeroMetricsReturnZeroOrNaN ==
    mcall.fn \in ZeroMetrics =>
        mcall.out = IF NoOverflow THEN Zero ELSE NaN

\* consciousness_resonance has returned 0 for a non-zero loop observable and
\* a sum of products that is finite and not 0.
ZeroMetricsReturnZeroOrNaNWitness ==
    /\ mcall.fn = "consciousness_resonance"
    /\ mcall.args[1] # Zero
    /\ Len(mcall.args[2]) = 2 /\ Len(mcall.args[3]) = 2
    /\ IsFinite(resonance_integral(mcall.args[2], mcall.args[3]))
    /\ resonance_integral(mcall.args[2], mcall.args[3]) # Zero
    /\ mcall.out = Zero

=============================================================================
